---- MODULE Spec2Model ----
(***************************************************************************)
(* Scroll-reveal / animation-orchestration layer of OmniData.AI:           *)
(* ScrollSection, ScrollScene and ScrollSeal (React components that own a  *)
(* gsap context inside a passive effect), the RootLayout smooth-scroll     *)
(* container, and the IntersectionObserver of the static website; and, as  *)
(* separate specifications, what the components render, the auth          *)
(* providers with their route guards, the chat widgets, the paginated      *)
(* DataFeed, the AutoMLDashboard stepper and the loading flag of           *)
(* IntegrationDashboard.                                                   *)
(*                                                                         *)
(* React, gsap, ScrollTrigger, react-intersection-observer and             *)
(* locomotive-scroll are modelled by their documented behaviour at the     *)
(* call sites of the repository.  Lengths are in fifths of the viewport    *)
(* height; ScrollTrigger positions are in hundredths of that unit.         *)
(***************************************************************************)
EXTENDS Integers, Sequences, FiniteSets, TLC

(* ------------------------------ bounds -------------------------------- *)
\* gsap contexts one component instance may create, and observer-caused
\* effect runs it may see, during its life
MaxCtx == 4
\* animation frames the one-second reveal tween takes from start to end
Frames == 2
\* height of the viewport, in length units
ViewportH == 5
\* gsap contexts each of two ScrollSections on one page may create
PairCtx == 3

(* -------------------------- program constants ------------------------- *)
\* useInView({ threshold: 0.1 })
ThresholdPct == 10
\* scrollTrigger.start: 'top 80%' of the reveal tween
RevealStartPct == 80
\* y: '30%' of the parallax tween
ParallaxPct == 30
\* scrollTrigger.end: 'bottom 20%' of the ScrollScene content tween
SceneEndPct == 20

\* className min-h-screen: the region is one viewport high
SectionH == ViewportH
\* the region starts one viewport below the top of the page
SectionTop == ViewportH
MaxScroll == SectionTop + SectionH

Components == {"ScrollSection", "ScrollScene", "ScrollSeal"}
\* a page may hold several ScrollSections: a second instance, laid out
\* beside the first one (same vertical range)
Sections == {"ScrollSection", "ScrollSection2"}
Instances == Components \cup Sections
Kinds == {"reveal", "parallax", "base", "spin"}

\* the instances the model follows, one per behaviour: a scroll-animated
\* component, the root layout of the app, or the static website page
Subjects == Components \cup {"RootLayout", "website"}

VARIABLES
    subject,   \* the instance this behaviour follows
    layout,    \* React state of RootLayout
    loco,      \* the LocomotiveScroll instances RootLayout created
    pageYOffset, \* window scroll offset of the website page
    io,        \* io[i]: what the website's observer last reported for section i
    visible,   \* website sections that carry the class 'visible'
    comp,      \* comp[c]: React state of component instance c
    ctxLog,    \* ctxLog[c]: the gsap contexts c created, in creation order
    anims,     \* live tweens on gsap's global timeline
    el,        \* el[c][k]: inline style written on c's node by tween kind k
    scrollY,   \* window scroll offset
    events,    \* inView values of the effect runs an observer report caused
    view,      \* what the component function last returned, for what props,
               \* and the snap / showSeal prop of the render before it
    auth,      \* the auth provider: its React state, localStorage, requests
    chat,      \* the chat widget: transcript, input, requests in flight
    feed,      \* DataFeed: the query result it reads and its fetchMore calls
    ml,        \* AutoMLDashboard: its React state and its requests in flight
    dash       \* IntegrationDashboard: its loading flag and requests in flight

compVars == <<comp, ctxLog, anims, el, scrollY, events>>
layoutVars == <<layout, loco>>
webVars == <<pageYOffset, io, visible>>
pageVars == <<feed, ml, dash>>
appVars == <<view, auth, chat, pageVars>>
vars == <<subject, compVars, layoutVars, webVars, appVars>>

World == [comp |-> comp, ctxLog |-> ctxLog, anims |-> anims, el |-> el,
          events |-> events]

SetWorld(w) ==
    /\ comp' = w.comp
    /\ ctxLog' = w.ctxLog
    /\ anims' = w.anims
    /\ el' = w.el
    /\ events' = w.events

Clamp(x, lo, hi) == IF x < lo THEN lo ELSE IF x > hi THEN hi ELSE x

(* ------------------------------ geometry ------------------------------ *)
\* height of the part of a region (one viewport high, starting at docTop)
\* that is inside the viewport at scroll offset y
VisibleH(docTop, y) ==
    LET t == docTop - y
        top == IF t > 0 THEN t ELSE 0
        bot == IF t + SectionH < ViewportH THEN t + SectionH ELSE ViewportH
    IN IF bot > top THEN bot - top ELSE 0

\* the in-view signal of useInView at scroll offset y
GeomInView(y) ==
    /\ VisibleH(SectionTop, y) > 0
    /\ 100 * VisibleH(SectionTop, y) >= ThresholdPct * SectionH

\* scroll offset (hundredths) at which a tween's ScrollTrigger starts
StartPos(kind) ==
    CASE kind = "reveal" -> 100 * SectionTop - RevealStartPct * ViewportH
      [] kind = "base" -> 100 * SectionTop - RevealStartPct * ViewportH
      [] OTHER -> 100 * SectionTop - 100 * ViewportH

\* scroll offset (hundredths) at which a tween's ScrollTrigger ends
EndPos(kind) ==
    CASE kind = "base" -> 100 * (SectionTop + SectionH) - SceneEndPct * ViewportH
      [] OTHER -> 100 * (SectionTop + SectionH)

\* variant: the trigger snaps its progress (snap: 0.2)
ProgressSnapped(kind, y) ==
    (Clamp(100 * y - StartPos(kind), 0, EndPos(kind) - StartPos(kind)) \div 200)
        * 200

\* progress of a ScrollTrigger, as a numerator over EndPos - StartPos
Progress(kind, y) ==
    Clamp(100 * y - StartPos(kind), 0, EndPos(kind) - StartPos(kind))

Zone(kind, y) ==
    IF Progress(kind, y) = 0 THEN "before"
    ELSE IF Progress(kind, y) = EndPos(kind) - StartPos(kind) THEN "after"
    ELSE "active"

(* ------------------------------- tweens ------------------------------- *)
play(a) == [a EXCEPT !.dir = IF a.prog < Frames THEN "play" ELSE "idle"]

reverse(a) == [a EXCEPT !.dir = IF a.prog > 0 THEN "reverse" ELSE "idle"]

\* toggleActions: 'play none none reverse'
\* (onEnter, onLeave, onEnterBack, onLeaveBack)
toggleActions(prev, new, a) ==
    IF prev = "before" /\ new # "before" THEN play(a)
    ELSE IF new = "before" THEN reverse(a)
    ELSE a

\* variant: a scrubbed tween stays at its start until the next scroll event
NewAnimFromZero(c, id, kind, y) ==
    IF kind = "reveal"
    THEN LET a0 == [owner |-> c, ctx |-> id, kind |-> kind, prog |-> 0,
                    dir |-> "idle", zone |-> Zone(kind, y)]
         IN toggleActions("before", Zone(kind, y), a0)
    ELSE [owner |-> c, ctx |-> id, kind |-> kind, prog |-> 0,
          dir |-> "scrub", zone |-> Zone(kind, y)]

\* gsap.fromTo / gsap.to with a scrollTrigger, created at scroll offset y
NewAnim(c, id, kind, y) ==
    IF kind = "reveal"
    THEN LET a0 == [owner |-> c, ctx |-> id, kind |-> kind, prog |-> 0,
                    dir |-> "idle", zone |-> Zone(kind, y)]
         IN toggleActions("before", Zone(kind, y), a0)
    ELSE [owner |-> c, ctx |-> id, kind |-> kind, prog |-> Progress(kind, y),
          dir |-> "scrub", zone |-> Zone(kind, y)]

\* ScrollTrigger's update of one tween on a scroll event
ScrollTriggerUpdate(a, y) ==
    IF a.dir = "scrub"
    THEN [a EXCEPT !.prog = Progress(a.kind, y), !.zone = Zone(a.kind, y)]
    ELSE IF Zone(a.kind, y) = a.zone THEN a
    ELSE [toggleActions(a.zone, Zone(a.kind, y), a)
             EXCEPT !.zone = Zone(a.kind, y)]

\* one frame of gsap's ticker on one tween
TickAnim(a) ==
    IF a.dir = "play"
    THEN [a EXCEPT !.prog = a.prog + 1,
                   !.dir = IF a.prog + 1 >= Frames THEN "idle" ELSE "play"]
    ELSE IF a.dir = "reverse"
    THEN [a EXCEPT !.prog = a.prog - 1,
                   !.dir = IF a.prog - 1 <= 0 THEN "idle" ELSE "reverse"]
    ELSE a

\* the inline styles after every live tween has rendered its value
RenderAnims(e, as) ==
    [c \in Instances |->
        [k \in Kinds |->
            IF \E a \in as : a.owner = c /\ a.kind = k
            THEN (CHOOSE a \in as : a.owner = c /\ a.kind = k).prog
            ELSE e[c][k]]]

(* ---------------------------- gsap context ---------------------------- *)
\* variant: the tweens are made outside the context, which records nothing
gsapContextUnrecorded(w, c, kinds, y) ==
    LET id == Len(w.ctxLog[c]) + 1
        as == w.anims \cup {NewAnim(c, id, k, y) : k \in kinds}
    IN [w EXCEPT !.ctxLog[c] = Append(@, [data |-> {}, reverts |-> 0]),
                 !.anims = as,
                 !.el = RenderAnims(w.el, as),
                 !.comp[c].ctx = id]

\* gsap.context(() => { ... }, ref): records the tweens made inside it
gsapContext(w, c, kinds, y) ==
    LET id == Len(w.ctxLog[c]) + 1
        as == w.anims \cup {NewAnim(c, id, k, y) : k \in kinds}
    IN [w EXCEPT !.ctxLog[c] = Append(@, [data |-> kinds, reverts |-> 0]),
                 !.anims = as,
                 !.el = RenderAnims(w.el, as),
                 !.comp[c].ctx = id]

\* variant: a revert that keeps its records, so a second call tears the
\* same tweens down again
revertKeepingRecords(w, c, id) ==
    LET data == w.ctxLog[c][id].data
    IN [w EXCEPT
          !.anims = {a \in @ : ~(a.owner = c /\ a.ctx = id /\ a.kind \in data)},
          !.el[c] = [k \in Kinds |-> IF k \in data THEN -1 ELSE @[k]],
          !.ctxLog[c][id].reverts = @ + 1]

\* ctx.revert(): kills what the context recorded, restores the inline
\* styles, and forgets the records
revert(w, c, id) ==
    LET data == w.ctxLog[c][id].data
    IN [w EXCEPT
          !.anims = {a \in @ : ~(a.owner = c /\ a.ctx = id /\ a.kind \in data)},
          !.el[c] = [k \in Kinds |-> IF k \in data THEN -1 ELSE @[k]],
          !.ctxLog[c][id] = [data |-> {}, reverts |-> @.reverts + 1]]

(* ------------------------------ effects ------------------------------- *)
\* ScrollSection: useEffect body
ScrollSectionEffect(w, c, y) ==
    LET s == w.comp[c]
    IN IF s.life # "mounted" \/ ~s.trigger
       THEN [w EXCEPT !.comp[c].ctx = 0]
       ELSE gsapContext(w, c,
                (IF s.parallax THEN {"parallax"} ELSE {})
                    \cup (IF s.inView THEN {"reveal"} ELSE {}), y)

\* variant: the effect creates its context but returns no cleanup
ScrollSceneEffectNoCleanup(w, y) ==
    LET s == w.comp["ScrollScene"]
    IN IF s.life # "mounted"
       THEN [w EXCEPT !.comp["ScrollScene"].ctx = 0]
       ELSE [gsapContext(w, "ScrollScene",
                {"base"} \cup (IF s.parallax THEN {"parallax"} ELSE {}), y)
                EXCEPT !.comp["ScrollScene"].ctx = 0]

\* ScrollScene: useEffect body
ScrollSceneEffect(w, y) ==
    LET s == w.comp["ScrollScene"]
    IN IF s.life # "mounted"
       THEN [w EXCEPT !.comp["ScrollScene"].ctx = 0]
       ELSE gsapContext(w, "ScrollScene",
                {"base"} \cup (IF s.parallax THEN {"parallax"} ELSE {}), y)

\* ScrollSeal: useEffect body
ScrollSealEffect(w, y) ==
    LET s == w.comp["ScrollSeal"]
    IN IF ~s.animateOnScroll \/ s.life # "mounted"
       THEN [w EXCEPT !.comp["ScrollSeal"].ctx = 0]
       ELSE gsapContext(w, "ScrollSeal", {"spin"}, y)

useEffect(w, c, y) ==
    CASE c \in Sections -> ScrollSectionEffect(w, c, y)
      [] c = "ScrollScene" -> ScrollSceneEffect(w, y)
      [] c = "ScrollSeal" -> ScrollSealEffect(w, y)

\* variant: the effect returns no cleanup
CleanupSkipped(w, c) == w

\* the cleanup the effect returned: () => ctx.revert(); ctx = 0 when the
\* effect returned early and gave React no cleanup
Cleanup(w, c) ==
    IF w.comp[c].ctx = 0 THEN w ELSE revert(w, c, w.comp[c].ctx)

\* the dependency array of the effect
Deps(c, s) ==
    CASE c \in Sections -> <<s.inView, s.parallax, s.trigger>>
      [] c = "ScrollScene" -> <<s.parallax>>
      [] c = "ScrollSeal" -> <<s.animateOnScroll>>

\* variant: the effect has no dependency array and runs after every render
DepsAlwaysChanged(c, old, new) == TRUE

DepsChanged(c, old, new) == Deps(c, old) # Deps(c, new)

\* React flushing the passive effects of c: the previous cleanup, then the
\* effect body with the values of the committed render
FlushPassive(w, c, y) ==
    IF w.comp[c].pending = "none" THEN w
    ELSE LET w1 == Cleanup(w, c)
             w2 == useEffect(w1, c, y)
         IN [w2 EXCEPT
               !.comp[c].pending = "none",
               !.events = IF c = "ScrollSection" /\ w.comp[c].pending = "observer"
                          THEN Append(@, IF w.comp[c].inView THEN "enter"
                                         ELSE "exit")
                          ELSE @]

\* room for the context a further effect run may create
Budget(w, c) ==
    LET max == IF subject = "sections" THEN PairCtx ELSE MaxCtx
    IN Len(w.ctxLog[c]) < max /\ Len(w.events) < max

(* ------------------------------ actions ------------------------------- *)
\* variant: useInView({ initialInView: true })
InitCompInitialInView ==
    [life |-> "unmounted", inView |-> TRUE, parallax |-> FALSE,
     trigger |-> TRUE, animateOnScroll |-> TRUE, observing |-> FALSE,
     pending |-> "none", ctx |-> 0]

InitComp ==
    [life |-> "unmounted", inView |-> FALSE, parallax |-> FALSE,
     trigger |-> TRUE, animateOnScroll |-> TRUE, observing |-> FALSE,
     pending |-> "none", ctx |-> 0]

InitComponents ==
    /\ comp = [c \in Instances |-> InitComp]
    /\ ctxLog = [c \in Instances |-> <<>>]
    /\ anims = {}
    /\ el = [c \in Instances |-> [k \in Kinds |-> -1]]
    /\ scrollY = 0
    /\ events = <<>>

\* the instances on the page of this behaviour
Followed == IF subject = "sections" THEN Sections ELSE {subject}

\* first render and commit of c; the refs are attached, the effect is queued
Mount(c) ==
    /\ c \in Followed
    /\ comp[c].life = "unmounted"
    /\ \E p \in BOOLEAN, t \in BOOLEAN, a \in BOOLEAN :
         /\ c \in Sections \/ t = TRUE
         /\ c = "ScrollSeal" \/ a = TRUE
         /\ c # "ScrollSeal" \/ p = FALSE
         /\ comp' = [comp EXCEPT ![c] =
                [@ EXCEPT !.life = "mounted", !.parallax = p, !.trigger = t,
                          !.animateOnScroll = a,
                          !.observing = (c \in Sections),
                          !.pending = "mount"]]
    /\ UNCHANGED <<ctxLog, anims, el, scrollY, events>>
    /\ UNCHANGED <<subject, appVars, layoutVars, webVars>>

\* the intersection observer reports the region's state to useInView, which
\* sets its state and re-renders the component
ObserverCallback(c) ==
    LET w1 == FlushPassive(World, c, scrollY)
        new == [w1.comp[c] EXCEPT !.inView = GeomInView(scrollY)]
    IN /\ comp[c].observing
       /\ Budget(w1, c)
       /\ SetWorld([w1 EXCEPT !.comp[c] =
            [new EXCEPT !.pending =
                IF w1.comp[c].life = "mounted" /\ DepsChanged(c, w1.comp[c], new)
                THEN "observer" ELSE "none"]])
       /\ UNCHANGED <<scrollY, subject, appVars, layoutVars, webVars>>

\* the parent re-renders c with other props
SetProps(c) ==
    LET w1 == FlushPassive(World, c, scrollY)
    IN /\ comp[c].life = "mounted"
       /\ Budget(w1, c)
       /\ \E p \in BOOLEAN, t \in BOOLEAN, a \in BOOLEAN :
            LET new == [w1.comp[c] EXCEPT !.parallax = p, !.trigger = t,
                                          !.animateOnScroll = a]
            IN /\ c \in Sections \/ t = TRUE
               /\ c = "ScrollSeal" \/ a = TRUE
               /\ c # "ScrollSeal" \/ p = FALSE
               /\ new # w1.comp[c]
               /\ SetWorld([w1 EXCEPT !.comp[c] =
                    [new EXCEPT !.pending =
                        IF DepsChanged(c, w1.comp[c], new) THEN "props"
                        ELSE "none"]])
       /\ UNCHANGED <<scrollY, subject, appVars, layoutVars, webVars>>

\* React runs the queued passive effect of c after paint
FlushPassiveEffects(c) ==
    /\ comp[c].life = "mounted"
    /\ comp[c].pending # "none"
    /\ SetWorld(FlushPassive(World, c, scrollY))
    /\ UNCHANGED <<scrollY, subject, appVars, layoutVars, webVars>>

\* variant: the observed node is never unobserved
UnmountKeepObserving(c) ==
    LET w1 == FlushPassive(World, c, scrollY)
    IN /\ comp[c].life = "mounted"
       /\ SetWorld([w1 EXCEPT !.comp[c].life = "unmounting"])
       /\ UNCHANGED <<scrollY, subject, appVars, layoutVars, webVars>>

\* React commits the removal of c: the refs are detached (the observed node
\* is unobserved) and the effect's cleanup is queued
Unmount(c) ==
    LET w1 == FlushPassive(World, c, scrollY)
    IN /\ comp[c].life = "mounted"
       /\ SetWorld([w1 EXCEPT !.comp[c].life = "unmounting",
                              !.comp[c].observing = FALSE])
       /\ UNCHANGED <<scrollY, subject, appVars, layoutVars, webVars>>

\* variant: the cleanup kills every ScrollTrigger tween on the page
\* (ScrollTrigger.getAll().forEach(t => t.kill()))
FlushUnmountKillAll(c) ==
    /\ comp[c].life = "unmounting"
    /\ SetWorld([Cleanup(World, c) EXCEPT !.comp[c].life = "disposed",
                                          !.comp[c].ctx = 0,
                                          !.anims = {}])
    /\ UNCHANGED <<scrollY, subject, appVars, layoutVars, webVars>>

\* React runs the cleanup of the removed component
FlushUnmount(c) ==
    /\ comp[c].life = "unmounting"
    /\ SetWorld([Cleanup(World, c) EXCEPT !.comp[c].life = "disposed",
                                          !.comp[c].ctx = 0])
    /\ UNCHANGED <<scrollY, subject, appVars, layoutVars, webVars>>

\* the window scrolls; every live ScrollTrigger updates its tween
Scroll ==
    \E y \in 0..MaxScroll :
        /\ subject \in Components \cup {"sections"}
        /\ y # scrollY
        /\ scrollY' = y
        /\ anims' = {ScrollTriggerUpdate(a, y) : a \in anims}
        /\ el' = RenderAnims(el, anims')
        /\ UNCHANGED <<comp, ctxLog, events, subject, appVars, layoutVars, webVars>>

\* one frame of gsap's ticker
Tick ==
    /\ \E a \in anims : a.dir \in {"play", "reverse"}
    /\ anims' = {TickAnim(a) : a \in anims}
    /\ el' = RenderAnims(el, anims')
    /\ UNCHANGED <<comp, ctxLog, scrollY, events, subject, appVars, layoutVars, webVars>>

Lifecycle(c) ==
    \/ Mount(c)
    \/ SetProps(c)
    \/ FlushPassiveEffects(c)
    \/ Unmount(c)
    \/ FlushUnmount(c)

NextComponents ==
    \/ \E c \in Components : Lifecycle(c)
    \/ ObserverCallback("ScrollSection")
    \/ Scroll
    \/ Tick

(* ----------------------------- RootLayout ----------------------------- *)
\* largest scroll offset of the app's page, in offset units
MaxOffset == 40
\* pathnames of the app
NumRoutes == 2
\* lerp: 0.05
LerpPct == 5
\* multiplier: 1
Multiplier == 1

InitLayout ==
    /\ layout = [life |-> "unmounted", pathname |-> 1, pendingScroll |-> FALSE,
                 pendingPath |-> FALSE, scroll |-> 0, scrollTop |-> 0]
    /\ loco = <<>>

LayoutWorld == [layout |-> layout, loco |-> loco]

SetLayoutWorld(lw) ==
    /\ layout' = lw.layout
    /\ loco' = lw.loco

\* new LocomotiveScroll({ el, smooth: true, lerp: 0.05, ... }): starts its
\* frame loop and attaches its wheel/touch/key/resize listeners
NewLocomotiveScroll ==
    [raf |-> TRUE, listeners |-> TRUE, delta |-> 0, y |-> 0, destroys |-> 0]

\* scroll.destroy(): cancels the frame loop and removes the listeners
destroy(inst) ==
    [inst EXCEPT !.raf = FALSE, !.listeners = FALSE, !.destroys = @ + 1]

\* first effect of RootLayout (dependencies [])
LocomotiveEffect(lw) ==
    IF lw.layout.life = "mounted"
    THEN [lw EXCEPT !.loco = Append(@, NewLocomotiveScroll),
                    !.layout.scroll = Len(lw.loco) + 1]
    ELSE lw

\* variant: the effect returns no cleanup
LocomotiveCleanupSkipped(lw) == lw

\* its cleanup: if (scroll) scroll.destroy()
LocomotiveCleanup(lw) ==
    IF lw.layout.scroll # 0
    THEN [lw EXCEPT !.loco[lw.layout.scroll] = destroy(@)]
    ELSE lw

\* second effect of RootLayout (dependencies [pathname]):
\* containerRef.current.scrollTo(0, 0) scrolls the container element itself
PathnameEffect(lw) ==
    IF lw.layout.life = "mounted"
    THEN [lw EXCEPT !.layout.scrollTop = 0]
    ELSE lw

\* React flushing the queued passive effects of RootLayout, in source order
LayoutFlush(lw) ==
    LET l1 == IF lw.layout.pendingScroll THEN LocomotiveEffect(lw) ELSE lw
        l2 == IF lw.layout.pendingPath THEN PathnameEffect(l1) ELSE l1
    IN [l2 EXCEPT !.layout.pendingScroll = FALSE, !.layout.pendingPath = FALSE]

Trunc(n, k) == IF n >= 0 THEN n \div k ELSE -((-n) \div k)

\* one frame of the smooth scroll: the published offset moves toward the
\* target by the lerp factor
Lerp(y, target) == y + Trunc((target - y) * LerpPct, 100)

\* the offset the container publishes to its subscribers
PublishedOffset ==
    IF layout.scroll # 0 THEN loco[layout.scroll].y ELSE 0

LayoutMount ==
    /\ subject = "RootLayout"
    /\ layout.life = "unmounted"
    /\ \E p \in 1..NumRoutes :
         layout' = [layout EXCEPT !.life = "mounted", !.pathname = p,
                                  !.pendingScroll = TRUE, !.pendingPath = TRUE]
    /\ UNCHANGED <<loco, subject, appVars, compVars, webVars>>

LayoutFlushPassiveEffects ==
    /\ layout.life = "mounted"
    /\ layout.pendingScroll \/ layout.pendingPath
    /\ SetLayoutWorld(LayoutFlush(LayoutWorld))
    /\ UNCHANGED <<subject, appVars, compVars, webVars>>

\* usePathname() returns another pathname; RootLayout re-renders
Navigate ==
    /\ layout.life = "mounted"
    /\ \E p \in 1..NumRoutes :
         /\ p # layout.pathname
         /\ SetLayoutWorld([LayoutFlush(LayoutWorld) EXCEPT
                               !.layout.pathname = p,
                               !.layout.pendingPath = TRUE])
    /\ UNCHANGED <<subject, appVars, compVars, webVars>>

\* a wheel/touch/key event moves the target of a listening instance
Wheel ==
    \E i \in 1..Len(loco), d \in (0 - MaxOffset)..MaxOffset :
        /\ loco[i].listeners
        /\ Clamp(loco[i].delta + Multiplier * d, 0, MaxOffset) # loco[i].delta
        /\ loco' = [loco EXCEPT ![i].delta =
                        Clamp(@ + Multiplier * d, 0, MaxOffset)]
        /\ UNCHANGED <<layout, subject, appVars, compVars, webVars>>

\* the frame callback of a running instance publishes the next offset
Frame ==
    \E i \in 1..Len(loco) :
        /\ loco[i].raf
        /\ loco[i].y # Lerp(loco[i].y, loco[i].delta)
        /\ loco' = [loco EXCEPT ![i].y = Lerp(@, loco[i].delta)]
        /\ UNCHANGED <<layout, subject, appVars, compVars, webVars>>

LayoutUnmount ==
    /\ layout.life = "mounted"
    /\ SetLayoutWorld([LayoutFlush(LayoutWorld) EXCEPT
                          !.layout.life = "unmounting"])
    /\ UNCHANGED <<subject, appVars, compVars, webVars>>

LayoutFlushUnmount ==
    /\ layout.life = "unmounting"
    /\ SetLayoutWorld([LocomotiveCleanup(LayoutWorld) EXCEPT
                          !.layout.life = "disposed",
                          !.layout.scroll = 0])
    /\ UNCHANGED <<subject, appVars, compVars, webVars>>

NextLayout ==
    \/ LayoutMount
    \/ LayoutFlushPassiveEffects
    \/ Navigate
    \/ Wheel
    \/ Frame
    \/ LayoutUnmount
    \/ LayoutFlushUnmount

(* ------------------------- website/scroll.js -------------------------- *)
\* sections of class scroll-fade on the page
NumFade == 2
\* new IntersectionObserver(..., { threshold: 0.15 })
WebThresholdPct == 15

FadeSections == 1..NumFade
\* the sections follow the hero, one viewport each
FadeTop(i) == i * ViewportH
WebMaxScroll == NumFade * ViewportH

\* what an IntersectionObserver with one threshold tracks for a target
IOState(i, y) ==
    [isIntersecting |-> VisibleH(FadeTop(i), y) > 0,
     thresholdIndex |->
        IF 100 * VisibleH(FadeTop(i), y) >= WebThresholdPct * SectionH
        THEN 1 ELSE 0]

\* the script has run: every section is observed, nothing reported yet
InitWebsite ==
    /\ pageYOffset = 0
    /\ io = [i \in FadeSections |->
                [isIntersecting |-> FALSE, thresholdIndex |-> -1]]
    /\ visible = {}

\* the observer's callback: entries.forEach(entry => { if
\* (entry.isIntersecting) entry.target.classList.add('visible') })
WebObserverCallback ==
    LET entries == {i \in FadeSections : IOState(i, pageYOffset) # io[i]}
    IN /\ subject = "website"
       /\ entries # {}
       /\ visible' = visible \cup
             {i \in entries : IOState(i, pageYOffset).isIntersecting}
       /\ io' = [i \in FadeSections |->
                    IF i \in entries THEN IOState(i, pageYOffset) ELSE io[i]]
       /\ UNCHANGED <<pageYOffset, subject, appVars, compVars, layoutVars>>

WebScroll ==
    \E y \in 0..WebMaxScroll :
        /\ subject = "website"
        /\ y # pageYOffset
        /\ pageYOffset' = y
        /\ UNCHANGED <<io, visible, subject, appVars, compVars, layoutVars>>

NextWebsite ==
    \/ WebObserverCallback
    \/ WebScroll

(* ------------------------------- render ------------------------------- *)
\* values of the className prop, as sets of class tokens
ClassNames == {{}, {"bg-night"}, {"snap-start", "snap-always"}}
\* values of the children prop
Children == {<<>>, <<"content">>}
SealPositions == {"top", "bottom", "left", "right"}

\* an optional prop is a set with at most one member; a destructuring
\* default applies when the prop is not given
Optional(S) == {{}} \cup {{x} : x \in S}

Default(opt, d) == IF opt = {} THEN d ELSE CHOOSE x \in opt : TRUE

\* ScrollSectionProps
SectionProps ==
    [className : ClassNames, children : Children, snap : Optional(BOOLEAN),
     parallax : BOOLEAN, trigger : BOOLEAN]

\* ScrollSceneProps
SceneProps ==
    [className : ClassNames, children : Children,
     showSeal : Optional(BOOLEAN), sealPosition : Optional(SealPositions),
     parallax : BOOLEAN]

\* const sealClasses = { top: ..., bottom: ..., left: ..., right: ... }
sealClasses(pos) ==
    CASE pos = "top" ->
            {"absolute", "top-4", "left-1/2", "transform", "-translate-x-1/2"}
      [] pos = "bottom" ->
            {"absolute", "bottom-4", "left-1/2", "transform", "-translate-x-1/2"}
      [] pos = "left" ->
            {"absolute", "left-4", "top-1/2", "transform", "-translate-y-1/2"}
      [] pos = "right" ->
            {"absolute", "right-4", "top-1/2", "transform", "-translate-y-1/2"}

\* variant: the snap classes follow the in-view signal as well
ScrollSectionRenderSnapInView(p, inView) ==
    [classes |-> {"relative", "min-h-screen", "w-full"}
                    \cup (IF Default(p.snap, TRUE) \/ inView
                          THEN {"snap-start", "snap-always"} ELSE {})
                    \cup p.className,
     attrs |-> {"data-scroll-section"},
     children |-> p.children,
     seal |-> {}]

\* ScrollSection: the <section> the component function returns
ScrollSectionRender(p, inView) ==
    [classes |-> {"relative", "min-h-screen", "w-full"}
                    \cup (IF Default(p.snap, TRUE)
                          THEN {"snap-start", "snap-always"} ELSE {})
                    \cup p.className,
     attrs |-> {"data-scroll-section"},
     children |-> p.children,
     seal |-> {}]

\* variant: the seal is rendered whatever showSeal is
ScrollSceneRenderSealAlways(p) ==
    [classes |-> {"relative", "min-h-screen", "w-full", "flex", "items-center",
                  "justify-center", "snap-start"} \cup p.className,
     attrs |-> {},
     children |-> p.children,
     seal |-> {[classes |-> sealClasses(Default(p.sealPosition, "bottom")),
                animateOnScroll |-> TRUE]}]

\* ScrollScene: the <section> the component function returns
ScrollSceneRender(p) ==
    [classes |-> {"relative", "min-h-screen", "w-full", "flex", "items-center",
                  "justify-center", "snap-start"} \cup p.className,
     attrs |-> {},
     children |-> p.children,
     seal |-> IF Default(p.showSeal, TRUE)
              THEN {[classes |-> sealClasses(Default(p.sealPosition, "bottom")),
                     animateOnScroll |-> TRUE]}
              ELSE {}]

\* nothing rendered yet
InitRender ==
    view = [c |-> "none", props |-> <<>>, inView |-> FALSE, out |-> <<>>,
            first |-> FALSE, prev |-> {}]

\* the first render of a ScrollSection; useInView gives false on the first
\* render, and whatever a test's mock of it returns
FirstRenderSection ==
    /\ subject = "render"
    /\ view.c = "none"
    /\ \E p \in SectionProps, iv \in BOOLEAN :
          view' = [c |-> "ScrollSection", props |-> p, inView |-> iv,
                   out |-> ScrollSectionRender(p, iv), first |-> TRUE,
                   prev |-> {}]
    /\ UNCHANGED <<subject, auth, chat, pageVars, compVars, layoutVars, webVars>>

\* the first render of a ScrollScene
FirstRenderScene ==
    /\ subject = "render"
    /\ view.c = "none"
    /\ \E p \in SceneProps :
          view' = [c |-> "ScrollScene", props |-> p, inView |-> FALSE,
                   out |-> ScrollSceneRender(p), first |-> TRUE,
                   prev |-> {}]
    /\ UNCHANGED <<subject, auth, chat, pageVars, compVars, layoutVars, webVars>>

\* a later render of the ScrollSection, with other props or another in-view
\* signal
RerenderSection ==
    /\ subject = "render"
    /\ view.c = "ScrollSection"
    /\ \E p \in SectionProps, iv \in BOOLEAN :
          /\ <<p, iv>> # <<view.props, view.inView>>
          /\ view' = [c |-> "ScrollSection", props |-> p, inView |-> iv,
                      out |-> ScrollSectionRender(p, iv), first |-> FALSE,
                      prev |-> view.props.snap]
    /\ UNCHANGED <<subject, auth, chat, pageVars, compVars, layoutVars, webVars>>

\* a later render of the ScrollScene, with other props
RerenderScene ==
    /\ subject = "render"
    /\ view.c = "ScrollScene"
    /\ \E p \in SceneProps :
          /\ p # view.props
          /\ view' = [c |-> "ScrollScene", props |-> p, inView |-> FALSE,
                      out |-> ScrollSceneRender(p), first |-> FALSE,
                      prev |-> view.props.showSeal]
    /\ UNCHANGED <<subject, auth, chat, pageVars, compVars, layoutVars, webVars>>

NextRender ==
    \/ FirstRenderSection
    \/ FirstRenderScene
    \/ RerenderSection
    \/ RerenderScene

(* -------------------------------- auth --------------------------------- *)
\* login() calls in one behaviour
MaxLogins == 2

\* the two auth providers of the front end: hooks/useAuth.ts (read by
\* PrivateRoute) and auth/AuthContext.tsx (read by ProtectedRoute)
Providers == {"useAuth", "AuthContext"}

Users == {"admin", "user"}

\* JWTs: one the backend issues to each user, and one it no longer accepts
Tokens == {"jwt-admin", "jwt-user", "jwt-stale"}

TokenOf(u) == IF u = "admin" THEN "jwt-admin" ELSE "jwt-user"

\* the user a token was issued to; "null" when the backend rejects it
UserOf(t) ==
    CASE t = "jwt-admin" -> "admin"
      [] t = "jwt-user" -> "user"
      [] OTHER -> "null"

\* user?.role of hooks/useAuth.ts
Role(u) ==
    CASE u = "admin" -> "scroll-admin"
      [] u = "user" -> "scroll-user"
      [] OTHER -> "undefined"

\* user?.isAdmin of auth/AuthContext.tsx
IsAdmin(u) == u = "admin"

\* isAuthenticated as the provider publishes it: a state of its own in
\* useAuth.ts, !!token in AuthContext.tsx
Authenticated(a) ==
    IF subject = "useAuth" THEN a.isAuthenticated ELSE a.token # "none"

\* PrivateRoute: what it renders
PrivateRoute(a, adminOnly) ==
    IF ~Authenticated(a) THEN "/login"
    ELSE IF adminOnly /\ Role(a.user) # "scroll-admin" THEN "/"
    ELSE "children"

\* variant: the admin check is missing
ProtectedRouteNoAdminCheck(a, requireAdmin) ==
    IF ~Authenticated(a) THEN "/login"
    ELSE IF a.user = "null" THEN "loading"
    ELSE "children"

\* ProtectedRoute: what it renders
ProtectedRoute(a, requireAdmin) ==
    IF ~Authenticated(a) THEN "/login"
    ELSE IF requireAdmin /\ ~IsAdmin(a.user) THEN "/dashboard"
    ELSE IF a.user = "null" THEN "loading"
    ELSE "children"

\* the provider is not mounted; localStorage holds what an earlier visit left
InitAuth ==
    \E t \in {"none"} \cup Tokens :
        auth = [life |-> "unmounted", stored |-> t, token |-> "none",
                user |-> "null", isAuthenticated |-> FALSE, reqs |-> {},
                login |-> "idle", issued |-> "none", verify |-> "idle",
                logins |-> 0, path |-> "/", register |-> "idle"]

\* useAuth.ts verifyToken, try branch
verifyTokenOk(a, r) ==
    [a EXCEPT !.user = UserOf(r.token), !.isAuthenticated = TRUE]

\* useAuth.ts verifyToken, catch branch
verifyTokenCatch(a, r) ==
    [a EXCEPT !.stored = "none", !.user = "null", !.isAuthenticated = FALSE]

\* AuthContext.tsx fetchUserInfo, response.ok
fetchUserInfoOk(a, r) == [a EXCEPT !.user = UserOf(r.token)]

\* variant: a failed fetch forgets the user but keeps the token
fetchUserInfoFailedKeepToken(a, r) == [a EXCEPT !.user = "null"]

\* AuthContext.tsx fetchUserInfo, response not ok or the request threw
fetchUserInfoFailed(a, r) ==
    [a EXCEPT !.stored = "none", !.token = "none", !.user = "null"]

\* the provider mounts and its effect runs: a stored token is verified
AuthMount ==
    /\ subject \in Providers
    /\ auth.life = "unmounted"
    /\ auth' =
        IF auth.stored = "none" THEN [auth EXCEPT !.life = "mounted"]
        ELSE IF subject = "useAuth"
        THEN [auth EXCEPT !.life = "mounted", !.verify = "pending",
                !.reqs = @ \cup {[kind |-> "verify", token |-> auth.stored,
                                  from |-> "mount"]}]
        ELSE [auth EXCEPT !.life = "mounted", !.verify = "pending",
                !.token = auth.stored,
                !.reqs = @ \cup {[kind |-> "me", token |-> auth.stored,
                                  from |-> "mount"]}]
    /\ UNCHANGED <<subject, view, chat, pageVars, compVars, layoutVars, webVars>>

\* GET /auth/verify answers for a token the backend accepts
VerifyResponse ==
    /\ subject = "useAuth"
    /\ \E r \in auth.reqs :
          /\ r.kind = "verify"
          /\ UserOf(r.token) # "null"
          /\ auth' = [verifyTokenOk(auth, r) EXCEPT !.reqs = @ \ {r},
                                                     !.verify = "ok"]
    /\ UNCHANGED <<subject, view, chat, pageVars, compVars, layoutVars, webVars>>

\* GET /auth/verify fails: the token is rejected or the request errors
VerifyError ==
    /\ subject = "useAuth"
    /\ \E r \in auth.reqs :
          /\ r.kind = "verify"
          /\ auth' = [verifyTokenCatch(auth, r) EXCEPT !.reqs = @ \ {r},
                                                        !.verify = "failed"]
    /\ UNCHANGED <<subject, view, chat, pageVars, compVars, layoutVars, webVars>>

\* login(username, password) is called: the login request is sent
Login ==
    /\ subject \in Providers
    /\ auth.life = "mounted"
    /\ auth.login # "pending"
    /\ auth.logins < MaxLogins
    /\ \E u \in Users :
          auth' = [auth EXCEPT !.login = "pending", !.issued = "none",
                     !.logins = @ + 1,
                     !.reqs = @ \cup {[kind |-> "login", token |-> TokenOf(u),
                                       from |-> "login"]}]
    /\ UNCHANGED <<subject, view, chat, pageVars, compVars, layoutVars, webVars>>

\* the login endpoint answers with a token: useAuth.ts stores it and sets
\* the user of the response; AuthContext.tsx stores it and awaits
\* fetchUserInfo(access_token)
LoginResponse ==
    /\ subject \in Providers
    /\ \E r \in auth.reqs :
          /\ r.kind = "login"
          /\ auth' =
              IF subject = "useAuth"
              THEN [auth EXCEPT !.reqs = @ \ {r}, !.stored = r.token,
                      !.user = UserOf(r.token), !.isAuthenticated = TRUE,
                      !.issued = r.token, !.login = "resolved"]
              ELSE [auth EXCEPT !.stored = r.token, !.token = r.token,
                      !.issued = r.token,
                      !.reqs = (@ \ {r}) \cup
                          {[kind |-> "me", token |-> r.token,
                            from |-> "login"]}]
    /\ UNCHANGED <<subject, view, chat, pageVars, compVars, layoutVars, webVars>>

\* variant: the catch of login() also clears the session
LoginErrorClearsSession ==
    /\ subject \in Providers
    /\ \E r \in auth.reqs :
          /\ r.kind = "login"
          /\ auth' = [auth EXCEPT !.reqs = @ \ {r}, !.login = "rejected",
                                  !.stored = "none", !.token = "none",
                                  !.user = "null", !.isAuthenticated = FALSE]
    /\ UNCHANGED <<subject, view, chat, pageVars, compVars, layoutVars, webVars>>

\* the login endpoint refuses or the request errors: login() throws
LoginError ==
    /\ subject \in Providers
    /\ \E r \in auth.reqs :
          /\ r.kind = "login"
          /\ auth' = [auth EXCEPT !.reqs = @ \ {r}, !.login = "rejected"]
    /\ UNCHANGED <<subject, view, chat, pageVars, compVars, layoutVars, webVars>>

\* what follows the fetchUserInfo of request r: the mount effect is done,
\* or login() goes on to navigate('/dashboard') and returns
AfterUserInfo(a, r, outcome) ==
    IF r.from = "mount" THEN [a EXCEPT !.reqs = @ \ {r}, !.verify = outcome]
    ELSE IF r.from = "register"
    THEN [a EXCEPT !.reqs = @ \ {r}, !.path = "/dashboard",
                   !.register = "resolved"]
    ELSE [a EXCEPT !.reqs = @ \ {r}, !.path = "/dashboard",
                   !.login = "resolved"]

\* GET /api/auth/me answers ok for a token the backend accepts
UserInfoResponse ==
    /\ subject = "AuthContext"
    /\ \E r \in auth.reqs :
          /\ r.kind = "me"
          /\ UserOf(r.token) # "null"
          /\ auth' = AfterUserInfo(fetchUserInfoOk(auth, r), r, "ok")
    /\ UNCHANGED <<subject, view, chat, pageVars, compVars, layoutVars, webVars>>

\* GET /api/auth/me answers not ok, or the request errors
UserInfoError ==
    /\ subject = "AuthContext"
    /\ \E r \in auth.reqs :
          /\ r.kind = "me"
          /\ auth' = AfterUserInfo(fetchUserInfoFailed(auth, r), r, "failed")
    /\ UNCHANGED <<subject, view, chat, pageVars, compVars, layoutVars, webVars>>

\* register(username, email, password) of AuthContext.tsx is called
Register ==
    /\ subject = "AuthContext"
    /\ auth.life = "mounted"
    /\ auth.register # "pending"
    /\ auth.logins < MaxLogins
    /\ \E u \in Users :
          auth' = [auth EXCEPT !.register = "pending", !.logins = @ + 1,
                     !.reqs = @ \cup {[kind |-> "register",
                                       token |-> TokenOf(u),
                                       from |-> "register"]}]
    /\ UNCHANGED <<subject, view, chat, pageVars, compVars, layoutVars, webVars>>

\* the register endpoint answers with a token: it is stored and
\* fetchUserInfo(access_token) is awaited
RegisterResponse ==
    /\ subject = "AuthContext"
    /\ \E r \in auth.reqs :
          /\ r.kind = "register"
          /\ auth' = [auth EXCEPT !.stored = r.token, !.token = r.token,
                      !.reqs = (@ \ {r}) \cup
                          {[kind |-> "me", token |-> r.token,
                            from |-> "register"]}]
    /\ UNCHANGED <<subject, view, chat, pageVars, compVars, layoutVars, webVars>>

\* the register endpoint refuses or the request errors: register() throws
RegisterError ==
    /\ subject = "AuthContext"
    /\ \E r \in auth.reqs :
          /\ r.kind = "register"
          /\ auth' = [auth EXCEPT !.reqs = @ \ {r}, !.register = "rejected"]
    /\ UNCHANGED <<subject, view, chat, pageVars, compVars, layoutVars, webVars>>

\* logout()
Logout ==
    /\ subject \in Providers
    /\ auth.life = "mounted"
    /\ auth' =
        IF subject = "useAuth"
        THEN [auth EXCEPT !.stored = "none", !.user = "null",
                          !.isAuthenticated = FALSE]
        ELSE [auth EXCEPT !.stored = "none", !.token = "none",
                          !.user = "null", !.path = "/login"]
    /\ UNCHANGED <<subject, view, chat, pageVars, compVars, layoutVars, webVars>>

NextAuth ==
    \/ AuthMount
    \/ VerifyResponse
    \/ VerifyError
    \/ Login
    \/ LoginResponse
    \/ LoginError
    \/ UserInfoResponse
    \/ UserInfoError
    \/ Register
    \/ RegisterResponse
    \/ RegisterError
    \/ Logout

(* -------------------------------- chat --------------------------------- *)
\* messages the user submits in one behaviour
MaxMsgs == 2

\* the chatbot of the static website (website/scroll.js) and the ScrollChat
\* component of the front end
ChatWidgets == {"chatbot", "ScrollChat"}

\* what the user may have typed into the input
Texts == {"", " ", "hi"}

\* String.prototype.trim
trim(t) == IF t = " " THEN "" ELSE t

\* nothing typed, nothing sent
InitChat ==
    chat = [transcript |-> <<>>, input |-> "", loading |-> FALSE,
            reqs |-> {}, failed |-> {}, sent |-> 0, scrollTop |-> 0]

\* the user edits the input; ScrollChat disables it while a request is out
ChatType ==
    /\ subject \in ChatWidgets
    /\ ~chat.loading
    /\ \E t \in Texts :
          /\ t # chat.input
          /\ chat' = [chat EXCEPT !.input = t]
    /\ UNCHANGED <<subject, view, auth, pageVars, compVars, layoutVars, webVars>>

\* form.onsubmit of the chatbot up to its await (the input is 'required'),
\* and handleSend of ScrollChat up to its await
ChatSubmit ==
    /\ subject \in ChatWidgets
    /\ chat.sent < MaxMsgs
    /\ IF subject = "chatbot"
       THEN /\ chat.input # ""
            /\ chat' = [chat EXCEPT
                  !.transcript = Append(@, [from |-> "You", id |-> chat.sent + 1,
                                            text |-> chat.input]),
                  !.input = "",
                  !.sent = @ + 1,
                  !.reqs = @ \cup {chat.sent + 1}]
       ELSE /\ ~chat.loading
            /\ chat' =
                IF trim(chat.input) = "" THEN chat
                ELSE [chat EXCEPT
                  !.transcript = Append(@, [from |-> "You", id |-> chat.sent + 1,
                                            text |-> chat.input]),
                  !.input = "",
                  !.loading = TRUE,
                  !.sent = @ + 1,
                  !.reqs = @ \cup {chat.sent + 1},
                  !.scrollTop = Len(chat.transcript) + 1]
    /\ UNCHANGED <<subject, view, auth, pageVars, compVars, layoutVars, webVars>>

\* variant: the answer is read but not put into the transcript
ChatReplyDropped(id) ==
    /\ subject \in ChatWidgets
    /\ id \in chat.reqs
    /\ chat' = [chat EXCEPT !.reqs = @ \ {id}, !.loading = FALSE]
    /\ UNCHANGED <<subject, view, auth, pageVars, compVars, layoutVars, webVars>>

\* the request of message id is answered: the rest of form.onsubmit, and
\* the try and finally branches of handleSend
ChatReply(id) ==
    /\ subject \in ChatWidgets
    /\ id \in chat.reqs
    /\ chat' = [chat EXCEPT
          !.transcript = Append(@, [from |-> "Scroll Scribe", id |-> id,
                                    text |-> "reply"]),
          !.reqs = @ \ {id},
          !.loading = FALSE,
          !.scrollTop = Len(chat.transcript) + 1]
    /\ UNCHANGED <<subject, view, auth, pageVars, compVars, layoutVars, webVars>>

\* variant: handleSend without its finally branch
ChatErrorKeepsLoading(id) ==
    /\ subject \in ChatWidgets
    /\ id \in chat.reqs
    /\ chat' = [chat EXCEPT !.reqs = @ \ {id}, !.failed = @ \cup {id}]
    /\ UNCHANGED <<subject, view, auth, pageVars, compVars, layoutVars, webVars>>

\* the request of message id fails: form.onsubmit ends in an unhandled
\* rejection; handleSend logs the error and clears loading
ChatError(id) ==
    /\ subject \in ChatWidgets
    /\ id \in chat.reqs
    /\ chat' = [chat EXCEPT !.reqs = @ \ {id}, !.failed = @ \cup {id},
                            !.loading = FALSE]
    /\ UNCHANGED <<subject, view, auth, pageVars, compVars, layoutVars, webVars>>

\* every request is settled, one way or the other
ChatSettle == \E id \in 1..MaxMsgs : ChatReply(id) \/ ChatError(id)

NextChat ==
    \/ ChatType
    \/ ChatSubmit
    \/ \E id \in 1..MaxMsgs : ChatReply(id)
    \/ \E id \in 1..MaxMsgs : ChatError(id)

(* ------------------------------ DataFeed ------------------------------- *)
\* items the server may hold
MaxItems == 12
\* fetchMore calls issued in one behaviour
MaxFetch == 3
\* rows one loadMoreItems call may cover
MaxBatch == 2
\* useQuery(GET_DATA_ITEMS, { variables: { first: 10 } })
First == 10

\* the server's answer to dataItems(first, after): the cursor of item i is
\* i, and 0 stands for no cursor
Page(total, first, after) ==
    LET last == IF after + first < total THEN after + first ELSE total
    IN  [edges |-> [i \in 1..(last - after) |-> after + i],
         hasNextPage |-> last < total,
         endCursor |-> last]

\* before the first render; data is undefined
InitFeed ==
    feed = [status |-> "unmounted", total |-> 0, notify |-> FALSE,
            merge |-> FALSE, items |-> <<>>, hasNextPage |-> FALSE,
            endCursor |-> 0, reqs |-> <<>>]

\* the fetchMore calls that are not settled
PendingFetches(f) == {i \in DOMAIN f.reqs : f.reqs[i].state = "pending"}

\* loading of useQuery: true while the first query is out, and during a
\* fetchMore only if the client sets notifyOnNetworkStatusChange
feedLoading(f) ==
    \/ f.status = "loading"
    \/ f.notify /\ PendingFetches(f) # {}

\* isItemLoaded
isItemLoaded(f, index) == ~f.hasNextPage \/ index < Len(f.items)

\* variant: one placeholder row whether or not there is a next page
itemCountAlwaysPlusOne(f) == Len(f.items) + 1

\* itemCount of InfiniteLoader and List
itemCount(f) == IF f.hasNextPage THEN Len(f.items) + 1 ELSE Len(f.items)

\* first render: useQuery sends the query.  The Apollo client is created
\* outside this component: whether it reports fetchMore through loading,
\* and whether its cache merges the pages of dataItems, is its choice
FeedMount ==
    /\ subject = "DataFeed"
    /\ feed.status = "unmounted"
    /\ \E total \in 0..MaxItems, notify \in BOOLEAN, merge \in BOOLEAN :
          feed' = [feed EXCEPT !.status = "loading", !.total = total,
                               !.notify = notify, !.merge = merge]
    /\ UNCHANGED <<subject, view, auth, chat, ml, dash, compVars, layoutVars, webVars>>

\* the first query settles: the first page arrives, or the query fails
\* and data stays undefined
QuerySettle(ok) ==
    /\ subject = "DataFeed"
    /\ feed.status = "loading"
    /\ LET page == Page(feed.total, First, 0)
       IN  feed' =
            IF ok
            THEN [feed EXCEPT !.status = "ready",
                              !.items = page.edges,
                              !.hasNextPage = page.hasNextPage,
                              !.endCursor = page.endCursor]
            ELSE [feed EXCEPT !.status = "error"]
    /\ UNCHANGED <<subject, view, auth, chat, ml, dash, compVars, layoutVars, webVars>>

\* loadMoreItems up to its await; InfiniteLoader asks for rows that are not
\* loaded, which start at the row after the last item
loadMoreItems(startIndex, stopIndex) ==
    /\ subject = "DataFeed"
    /\ feed.status = "ready"
    /\ Len(feed.reqs) < MaxFetch
    /\ startIndex < itemCount(feed)
    /\ feed' =
        IF ~feed.hasNextPage \/ feedLoading(feed) THEN feed
        ELSE [feed EXCEPT !.reqs = Append(@,
                  [first |-> stopIndex - startIndex + 1,
                   after |-> feed.endCursor,
                   state |-> "pending"])]
    /\ UNCHANGED <<subject, view, auth, chat, ml, dash, compVars, layoutVars, webVars>>

\* fetchMore number i settles.  When it resolves, a cache that merges
\* appends the page to the list the query reads, and one that does not
\* stores it beside the list; when it rejects, loadMoreItems rejects too
FetchMoreSettle(i, ok) ==
    /\ subject = "DataFeed"
    /\ i \in PendingFetches(feed)
    /\ LET page == Page(feed.total, feed.reqs[i].first, feed.reqs[i].after)
       IN  feed' =
            IF ~ok THEN [feed EXCEPT !.reqs[i].state = "failed"]
            ELSE IF feed.merge
            THEN [feed EXCEPT !.reqs[i].state = "done",
                              !.items = @ \o page.edges,
                              !.hasNextPage = page.hasNextPage,
                              !.endCursor = page.endCursor]
            ELSE [feed EXCEPT !.reqs[i].state = "done"]
    /\ UNCHANGED <<subject, view, auth, chat, ml, dash, compVars, layoutVars, webVars>>

NextFeed ==
    \/ FeedMount
    \/ \E ok \in BOOLEAN : QuerySettle(ok)
    \/ \E n \in 1..MaxBatch :
          loadMoreItems(Len(feed.items), Len(feed.items) + n - 1)
    \/ \E i \in 1..MaxFetch, ok \in BOOLEAN : FetchMoreSettle(i, ok)

(* --------------------------- AutoMLDashboard --------------------------- *)
\* upload and train requests sent in one behaviour
MaxReq == 3
\* the Next button is followed up to this step
MaxStep == 5

steps == <<"Upload Data", "Data Profiling", "Configure Model",
           "Training Results">>

\* the useState initial values; modelConfig is never set, so its
\* target_column stays ''
InitML ==
    ml = [activeStep |-> 0, file |-> "null", dataProfile |-> "null",
          loading |-> FALSE, error |-> "null", target_column |-> "",
          modelResults |-> "null", uploads |-> 0, trains |-> 0, sent |-> 0]

\* the Back button
handleBack ==
    /\ subject = "AutoMLDashboard"
    /\ ml.activeStep # 0
    /\ ml' = [ml EXCEPT !.activeStep = @ - 1]
    /\ UNCHANGED <<subject, view, auth, chat, feed, dash, compVars, layoutVars, webVars>>

\* the Next button: rendered unless the step is the last one, disabled at
\* step 0 without a file and at step 2 without a target column
handleNext ==
    /\ subject = "AutoMLDashboard"
    /\ ml.activeStep # Len(steps) - 1
    /\ ~(ml.activeStep = 0 /\ ml.file = "null")
    /\ ~(ml.activeStep = 2 /\ ml.target_column = "")
    /\ ml.activeStep < MaxStep
    /\ ml' = [ml EXCEPT !.activeStep = @ + 1]
    /\ UNCHANGED <<subject, view, auth, chat, feed, dash, compVars, layoutVars, webVars>>

\* handleFileChange up to its await; the dropzone is part of step 0 and
\* reports the list of its files, which may be empty
handleFileChange(files) ==
    /\ subject = "AutoMLDashboard"
    /\ ml.activeStep = 0
    /\ ml.sent < MaxReq
    /\ ml' =
        IF files > 0
        THEN [ml EXCEPT !.file = "file", !.loading = TRUE, !.error = "null",
                        !.uploads = @ + 1, !.sent = @ + 1]
        ELSE ml
    /\ UNCHANGED <<subject, view, auth, chat, feed, dash, compVars, layoutVars, webVars>>

\* an upload settles: the rest of the try branch of handleFileChange when
\* the response is ok, its catch branch when not, and its finally branch
UploadSettle(ok) ==
    /\ subject = "AutoMLDashboard"
    /\ ml.uploads > 0
    /\ ml' =
        IF ok
        THEN [ml EXCEPT !.dataProfile = "profile",
                        !.activeStep = @ + 1,
                        !.loading = FALSE,
                        !.uploads = @ - 1]
        ELSE [ml EXCEPT !.error = "message", !.loading = FALSE,
                        !.uploads = @ - 1]
    /\ UNCHANGED <<subject, view, auth, chat, feed, dash, compVars, layoutVars, webVars>>

\* handleTrainModel up to its await; the Train Model button is part of
\* step 2 and disabled while loading
handleTrainModel ==
    /\ subject = "AutoMLDashboard"
    /\ ml.activeStep = 2
    /\ ~ml.loading
    /\ ml.sent < MaxReq
    /\ ml' = [ml EXCEPT !.loading = TRUE, !.error = "null",
                        !.trains = @ + 1, !.sent = @ + 1]
    /\ UNCHANGED <<subject, view, auth, chat, feed, dash, compVars, layoutVars, webVars>>

\* a training request settles: the rest of the try branch of
\* handleTrainModel when the response is ok, its catch branch when not, and
\* its finally branch
TrainSettle(ok) ==
    /\ subject = "AutoMLDashboard"
    /\ ml.trains > 0
    /\ ml' =
        IF ok
        THEN [ml EXCEPT !.modelResults = "results",
                        !.activeStep = @ + 1,
                        !.loading = FALSE,
                        !.trains = @ - 1]
        ELSE [ml EXCEPT !.error = "message", !.loading = FALSE,
                        !.trains = @ - 1]
    /\ UNCHANGED <<subject, view, auth, chat, feed, dash, compVars, layoutVars, webVars>>

NextML ==
    \/ handleBack
    \/ handleNext
    \/ \E files \in 0..1 : handleFileChange(files)
    \/ \E ok \in BOOLEAN : UploadSettle(ok)
    \/ handleTrainModel
    \/ \E ok \in BOOLEAN : TrainSettle(ok)

(* ------------------------- IntegrationDashboard ------------------------ *)
\* connect, disconnect, export and push operations in one behaviour
MaxOps == 2

\* the lists the dashboard fetches
Lists == {"integrations", "datasets", "sessions"}
\* the operations of the user: connect, disconnect, export PDF, push
Operations == {"connect", "disconnect", "pdf", "github"}
\* the requests whose handlers set and clear the loading flag
LoadingKinds == Lists \cup Operations

\* the useState initial values, nothing requested
InitDash ==
    dash = [mounted |-> FALSE, loading |-> FALSE,
            pending |-> [k \in LoadingKinds \cup {"sync"} |-> 0],
            have |-> {}, ops |-> 0]

\* the mount effect: fetchIntegrations, fetchDatasets and fetchSessions up
\* to their awaits, each after setLoading(true), and fetchSyncStatus
DashMount ==
    /\ subject = "IntegrationDashboard"
    /\ ~dash.mounted
    /\ dash' = [dash EXCEPT
          !.mounted = TRUE,
          !.loading = TRUE,
          !.pending = [k \in DOMAIN @ |->
                          IF k \in Lists \cup {"sync"} THEN @[k] + 1 ELSE @[k]]]
    /\ UNCHANGED <<subject, view, auth, chat, feed, ml, compVars, layoutVars, webVars>>

\* a fetch of list k settles: the rest of fetchIntegrations, fetchDatasets
\* or fetchSessions, whose finally branch clears the flag
FetchSettle(k, ok) ==
    /\ subject = "IntegrationDashboard"
    /\ k \in Lists
    /\ dash.pending[k] > 0
    /\ dash' = [dash EXCEPT
          !.pending[k] = @ - 1,
          !.have = IF ok THEN @ \cup {k} ELSE @,
          !.loading = FALSE]
    /\ UNCHANGED <<subject, view, auth, chat, feed, ml, compVars, layoutVars, webVars>>

\* the sync status arrives or fails; fetchSyncStatus leaves the flag alone
SyncSettle ==
    /\ subject = "IntegrationDashboard"
    /\ dash.pending["sync"] > 0
    /\ dash' = [dash EXCEPT !.pending["sync"] = @ - 1]
    /\ UNCHANGED <<subject, view, auth, chat, feed, ml, compVars, layoutVars, webVars>>

\* connectIntegration, disconnectIntegration, handleExportPDF and
\* handlePushToGitHub up to their awaits.  The Disconnect button and the
\* Connect form belong to a listed integration, the export buttons to a
\* listed session; Disconnect, Connect and Push are disabled while loading
\* and Export PDF lies under the loading overlay
Operate(k) ==
    /\ subject = "IntegrationDashboard"
    /\ k \in Operations
    /\ IF k \in {"connect", "disconnect"}
       THEN "integrations" \in dash.have
       ELSE "sessions" \in dash.have
    /\ ~dash.loading
    /\ dash.ops < MaxOps
    /\ dash' = [dash EXCEPT !.loading = TRUE, !.pending[k] = @ + 1,
                            !.ops = @ + 1]
    /\ UNCHANGED <<subject, view, auth, chat, feed, ml, compVars, layoutVars, webVars>>

\* the request of an operation settles.  After a connect or disconnect
\* answered with status 'success' fetchIntegrations() is called, after a
\* push that succeeded fetchSessions(), and each runs up to its await;
\* then the finally branch of the operation clears the flag
OperateSettle(k, outcome) ==
    /\ subject = "IntegrationDashboard"
    /\ k \in Operations
    /\ dash.pending[k] > 0
    /\ LET refetch == IF outcome # "success" THEN "none"
                      ELSE IF k \in {"connect", "disconnect"} THEN "integrations"
                      ELSE IF k = "github" THEN "sessions"
                      ELSE "none"
       IN  dash' = [dash EXCEPT
              !.pending = [j \in DOMAIN @ |->
                              IF j = k THEN @[j] - 1
                              ELSE IF j = refetch THEN @[j] + 1
                              ELSE @[j]],
              !.loading = FALSE]
    /\ UNCHANGED <<subject, view, auth, chat, feed, ml, compVars, layoutVars, webVars>>

NextDash ==
    \/ DashMount
    \/ \E k \in Lists, ok \in BOOLEAN : FetchSettle(k, ok)
    \/ SyncSettle
    \/ \E k \in Operations : Operate(k)
    \/ \E k \in Operations, outcome \in {"success", "refused", "error"} :
          OperateSettle(k, outcome)

InitRest ==
    /\ InitComponents
    /\ InitLayout
    /\ InitWebsite
    /\ InitRender
    /\ InitAuth
    /\ InitChat
    /\ InitFeed
    /\ InitML
    /\ InitDash

Init ==
    /\ subject \in Subjects
    /\ InitRest

Next ==
    \/ NextComponents
    \/ NextLayout
    \/ NextWebsite

Spec == Init /\ [][Next]_vars

\* the scroll-animated components alone; React always runs a queued
\* passive effect and a queued cleanup
FairSpec ==
    /\ Init
    /\ [][NextComponents]_vars
    /\ WF_vars(FlushPassiveEffects("ScrollSection"))
    /\ WF_vars(FlushUnmount("ScrollSection"))

\* two ScrollSections on one page
NextSections ==
    \/ \E c \in Sections : Mount(c)
    \/ \E c \in Sections : FlushPassiveEffects(c)
    \/ \E c \in Sections : ObserverCallback(c)
    \/ \E c \in Sections : Unmount(c)
    \/ \E c \in Sections : FlushUnmount(c)
    \/ Scroll
    \/ Tick

InitSections == subject = "sections" /\ InitRest

PairSpec == InitSections /\ [][NextSections]_vars

\* the chat widgets; the promise of every request is settled
InitChatSpec == subject \in ChatWidgets /\ InitRest

FairChatSpec ==
    /\ InitChatSpec
    /\ [][NextChat]_vars
    /\ WF_vars(ChatSettle)

\* the auth providers and the route guards that read them
InitAuthSpec == subject \in Providers /\ InitRest

AuthSpec == InitAuthSpec /\ [][NextAuth]_vars

\* the paginated data feed
InitFeedSpec == subject = "DataFeed" /\ InitRest

FeedSpec == InitFeedSpec /\ [][NextFeed]_vars

\* the AutoML stepper
InitMLSpec == subject = "AutoMLDashboard" /\ InitRest

MLSpec == InitMLSpec /\ [][NextML]_vars

\* the integration dashboard
InitDashSpec == subject = "IntegrationDashboard" /\ InitRest

DashSpec == InitDashSpec /\ [][NextDash]_vars

\* what the component functions return, for every value of their props
InitRenderSpec == subject = "render" /\ InitRest

RenderSpec == InitRenderSpec /\ [][NextRender]_vars

(* ------------------------------- claims ------------------------------- *)
Sec == "ScrollSection"

\* the reveal tweens alive on the ScrollSection's node
Reveals == {a \in anims : a.owner = Sec /\ a.kind = "reveal"}

IsRevealing == \E a \in Reveals : a.dir = "play"
IsReversing == \E a \in Reveals : a.dir = "reverse"
IsRevealed == \E a \in Reveals : a.dir = "idle" /\ a.prog = Frames
\* the initial state: no reveal style beyond its start value, nothing moving
IsHidden ==
    /\ el[Sec]["reveal"] <= 0
    /\ \A a \in Reveals : a.dir = "idle" /\ a.prog = 0

InState(st) ==
    CASE st = "Hidden" -> IsHidden
      [] st = "Revealing" -> IsRevealing
      [] st = "Revealed" -> IsRevealed
      [] st = "Reversing" -> IsReversing

OneRevealState ==
    Cardinality({st \in {"Hidden", "Revealing", "Revealed", "Reversing"} :
                    InState(st)}) = 1

\* the observer reported an exit that the controller has not processed yet
ExitDispatched ==
    /\ comp[Sec].life = "mounted"
    /\ ~comp[Sec].inView
    /\ comp[Sec].pending = "observer"

\* the section is out of view and the controller has processed the exit
ExitSettled == ~comp[Sec].inView /\ comp[Sec].pending # "observer"

SameButCalls(w1, w2, c) ==
    /\ w2.anims = w1.anims
    /\ w2.el = w1.el
    /\ w2.comp = w1.comp
    /\ \A id \in 1..Len(w1.ctxLog[c]) :
          w2.ctxLog[c][id].data = w1.ctxLog[c][id].data

C3_DisposeTerminal ==
    /\ [](comp[Sec].life = "mounted" => ENABLED Unmount(Sec))
    /\ [](comp[Sec].life = "disposed" => {a \in anims : a.owner = Sec} = {})
    /\ [][comp[Sec].life = "disposed" =>
            /\ comp'[Sec] = comp[Sec]
            /\ el'[Sec] = el[Sec]
            /\ {a \in anims' : a.owner = Sec} = {}]_vars

C3_Witness ==
    /\ comp[Sec].life = "disposed"
    /\ Len(ctxLog[Sec]) >= 2
    /\ events # <<>>
    /\ scrollY > 0
    /\ GeomInView(scrollY)

\* C4: of the contexts a component instance created, the one whose cleanup
\* React holds is unreleased and alive, every other one was reverted
\* exactly once and has no tween left; after the unmount none is held.
C4_ContextsReleasedOnce ==
    \A c \in Components :
        /\ \A id \in 1..Len(ctxLog[c]) :
              /\ ctxLog[c][id].reverts <= 1
              /\ (ctxLog[c][id].reverts = 0) <=> (id = comp[c].ctx)
              /\ ctxLog[c][id].reverts = 1 => ctxLog[c][id].data = {}
        /\ \A a \in anims : a.owner = c => a.ctx = comp[c].ctx
        /\ comp[c].life = "disposed" => comp[c].ctx = 0

C4_Witness ==
    /\ comp["ScrollScene"].life = "disposed"
    /\ Len(ctxLog["ScrollScene"]) >= 2
    /\ \A id \in 1..Len(ctxLog["ScrollScene"]) :
          ctxLog["ScrollScene"][id].reverts = 1

\* C5: the observer-caused runs of the ScrollSection's effect alternate
\* enter, exit, enter, ... and start with an enter.
C5_EventsAlternate ==
    \A i \in 1..Len(events) :
        events[i] = IF i % 2 = 1 THEN "enter" ELSE "exit"

C5_Witness ==
    /\ Len(events) >= 3
    /\ comp[Sec].inView
    /\ ~GeomInView(scrollY)

\* C6: an exit takes the region back to its initial state and removes the
\* revealed marker, so that a later enter reveals it again: a ScrollSection
\* that is out of view has no reveal tween and no reveal style, and a
\* website section last reported as not intersecting is not 'visible'.
C6_RevealRepeatable ==
    /\ ExitSettled => (Reveals = {} /\ el[Sec]["reveal"] = -1)
    /\ \A i \in FadeSections :
          (io[i].thresholdIndex # -1 /\ ~io[i].isIntersecting)
              => i \notin visible

\* C7: an in-view report for a ScrollSection that is in view and whose
\* reveal is playing or complete changes no tween, no style and no
\* context, and queues no effect run.
C7_EnterWhileRevealedNoOp ==
    [][(/\ comp[Sec].inView
        /\ comp[Sec].pending = "none"
        /\ IsRevealing \/ IsRevealed
        /\ GeomInView(scrollY)
        /\ ObserverCallback(Sec))
       => (/\ anims' = anims
           /\ el' = el
           /\ ctxLog' = ctxLog
           /\ comp' = comp)]_vars

C7_Witness ==
    /\ comp[Sec].observing
    /\ comp[Sec].inView
    /\ comp[Sec].pending = "none"
    /\ IsRevealed
    /\ GeomInView(scrollY)
    /\ Len(events) < MaxCtx

C9_RouteChangeResetsOffset ==
    [][(layout.pendingPath /\ ~layout'.pendingPath
            /\ layout'.life = "mounted")
        => (layout'.scroll # 0 /\ loco'[layout'.scroll].y = 0)]_vars

\* C10: after RootLayout is torn down, every LocomotiveScroll instance it
\* created was destroyed exactly once, runs no frame loop and holds no
\* listener, and no offset is published any more; no instance is ever
\* destroyed twice.
C10_LayoutTeardown ==
    /\ [](\A i \in 1..Len(loco) : loco[i].destroys <= 1)
    /\ [](layout.life = "disposed" =>
            \A i \in 1..Len(loco) :
                /\ loco[i].destroys = 1
                /\ ~loco[i].raf
                /\ ~loco[i].listeners)
    /\ [][layout.life = "disposed" => loco' = loco]_vars

C10_Witness ==
    /\ layout.life = "disposed"
    /\ Len(loco) = 1
    /\ loco[1].y > 0
    /\ Lerp(loco[1].y, loco[1].delta) # loco[1].y

SnapMarkers == {"snap-start", "snap-always"}

\* C11: a ScrollSection whose first render sees the observer in view carries
\* the class is-revealed in what that first render returns.
C11_RevealedMarkerAtMount ==
    (view.c = "ScrollSection" /\ view.first /\ view.inView)
        => "is-revealed" \in view.out.classes

\* C12: the rendered ScrollSection has both snap markers exactly when snap
\* is true (or not given) or the className prop itself carries them; so for
\* a className without the markers, exactly when snap is true, whatever
\* the other props and the in-view signal are and whatever was rendered
\* before.
C12_SnapMarkers ==
    view.c = "ScrollSection" =>
        /\ SnapMarkers \subseteq view.out.classes
              <=> (Default(view.props.snap, TRUE)
                      \/ SnapMarkers \subseteq view.props.className)
        /\ SnapMarkers \cap view.props.className = {} =>
              (SnapMarkers \cap view.out.classes # {}
                  <=> Default(view.props.snap, TRUE))

C12_Witness ==
    /\ view.c = "ScrollSection"
    /\ ~view.first
    /\ view.prev = {TRUE}
    /\ view.props.snap = {FALSE}
    /\ view.props.className = {"bg-night"}
    /\ view.inView
    /\ SnapMarkers \cap view.out.classes = {}

\* C12 as stated: the rendered ScrollSection has both snap markers if and
\* only if snap is true, for every value of the other props.
C12_SnapMarkersIffSnap ==
    view.c = "ScrollSection" =>
        (SnapMarkers \subseteq view.out.classes
            <=> Default(view.props.snap, TRUE))

\* C20: a rendered ScrollScene always contains its children, and contains
\* the Scroll Seal exactly when showSeal is true or not given, whatever
\* sealPosition and parallax are.
C20_SceneChildrenAndSeal ==
    view.c = "ScrollScene" =>
        /\ view.out.children = view.props.children
        /\ view.out.seal # {} <=> Default(view.props.showSeal, TRUE)

C20_Witness ==
    /\ view.c = "ScrollScene"
    /\ ~view.first
    /\ view.prev = {TRUE}
    /\ view.props.showSeal = {FALSE}
    /\ view.props.sealPosition = {"left"}
    /\ view.props.parallax
    /\ view.props.children # <<>>
    /\ view.out.seal = {}

\* y: '30%', ease: 'none': the translation at a progress, as a numerator over
\* 100 * (EndPos - StartPos) percent of the node's height
ParallaxY(prog) == ParallaxPct * prog

\* the scroll offsets at which the parallax trigger is between start and end
Traversal ==
    {y \in 0..MaxScroll : /\ 100 * y >= StartPos("parallax")
                          /\ 100 * y <= EndPos("parallax")}

\* the parallax tweens of component c among the tweens as
ParallaxOf(c, as) == {a \in as : a.owner = c /\ a.kind = "parallax"}

Motion(as) == {[kind |-> a.kind, prog |-> a.prog, dir |-> a.dir,
                zone |-> a.zone] : a \in as}

OwnedBy(c, as) == {a \in as : a.owner = c}

\* a step of section c itself: its mount, its effect runs, a report of its
\* viewport observer, its unmount
StepOf(c) ==
    \/ Mount(c)
    \/ FlushPassiveEffects(c)
    \/ ObserverCallback(c)
    \/ Unmount(c)
    \/ FlushUnmount(c)

Guard(adminOnly) ==
    IF subject = "useAuth" THEN PrivateRoute(auth, adminOnly)
    ELSE ProtectedRoute(auth, adminOnly)

\* the user of the session is an admin, as this provider's guard reads it
AdminSession ==
    IF subject = "useAuth" THEN Role(auth.user) = "scroll-admin"
    ELSE IsAdmin(auth.user)

C17_LoginEstablishesSession ==
    [][(auth.login = "pending" /\ auth'.login = "resolved")
        => (/\ auth'.issued # "none"
            /\ auth'.stored = auth'.issued
            /\ auth'.user = UserOf(auth'.issued)
            /\ Authenticated(auth'))]_vars

\* C18: a provider that mounts with a stored token sends a verification
\* request for that token; when that verification fails the stored token
\* is removed, user is null and the session is not authenticated.
C18_FailedVerificationEndsSession ==
    /\ [][(auth.life = "unmounted" /\ auth'.life = "mounted"
                /\ auth.stored # "none")
            => (/\ auth'.verify = "pending"
                /\ \E r \in auth'.reqs :
                      r.from = "mount" /\ r.token = auth.stored)]_vars
    /\ [][(auth.verify = "pending" /\ auth'.verify = "failed")
            => (/\ auth'.stored = "none"
                /\ auth'.user = "null"
                /\ ~Authenticated(auth'))]_vars

C18_Witness ==
    /\ subject = "AuthContext"
    /\ auth.verify = "failed"
    /\ auth.logins = 0
    /\ auth.stored = "none"
    /\ auth.token = "none"
    /\ auth.reqs = {}

\* position of the message of sender s and number id in the transcript, 0
\* when it is not there
PosOf(s, id) ==
    IF \E i \in 1..Len(chat.transcript) :
            chat.transcript[i].from = s /\ chat.transcript[i].id = id
    THEN CHOOSE i \in 1..Len(chat.transcript) :
            chat.transcript[i].from = s /\ chat.transcript[i].id = id
    ELSE 0

\* the reply to message id stands in the transcript, after the message
Replied(id) ==
    /\ PosOf("You", id) > 0
    /\ PosOf("Scroll Scribe", id) > PosOf("You", id)

C22_LoadingWhileUserUnknown ==
    (subject = "AuthContext" /\ auth.token # "none" /\ auth.user = "null")
        => \A requireAdmin \in BOOLEAN :
              ProtectedRoute(auth, requireAdmin) = "loading"

\* C23: in the AuthProvider of AuthContext.tsx, user is non-null only if
\* token is non-null.
C23_UserOnlyWithToken ==
    subject = "AuthContext" => (auth.user # "null" => auth.token # "none")

\* what a session consists of
Session(a) == <<a.stored, a.token, a.user, a.isAuthenticated, a.path>>

\* C26: neither the sending of a login or register request nor its failure
\* changes the stored token, the token, the user or the location; the
\* failure rejects the call.
C26_FailedLoginKeepsSession ==
    [][/\ (auth.login = "pending" /\ auth'.login = "rejected")
            => Session(auth') = Session(auth)
       /\ (auth.register = "pending" /\ auth'.register = "rejected")
            => Session(auth') = Session(auth)
       /\ (auth.login # "pending" /\ auth'.login = "pending")
            => Session(auth') = Session(auth)
       /\ (auth.register # "pending" /\ auth'.register = "pending")
            => Session(auth') = Session(auth)
       /\ \A r \in auth.reqs \ auth'.reqs :
            (r.kind = "login" /\ auth'.stored # r.token)
                => auth'.login = "rejected"]_vars

C26_Witness ==
    /\ subject = "AuthContext"
    /\ auth.login = "rejected"
    /\ auth.register = "rejected"
    /\ auth.stored = "jwt-user"
    /\ auth.token = "jwt-user"
    /\ auth.user = "user"
    /\ auth.path = "/"

\* C21: at most one fetchMore of DataFeed is in flight, and no two
\* fetchMore requests are issued with the same after cursor.
C21_OnePageLoadAtATime ==
    subject = "DataFeed" =>
        /\ Cardinality(PendingFetches(feed)) <= 1
        /\ \A i, j \in DOMAIN feed.reqs :
              i # j => feed.reqs[i].after # feed.reqs[j].after

\* C24: activeStep of AutoMLDashboard is an index of steps.
C24_StepInRange ==
    subject = "AutoMLDashboard" => ml.activeStep \in 0..(Len(steps) - 1)

\* C25: the loading flag of IntegrationDashboard is true whenever a
\* request whose handler set it is in flight.
C25_LoadingWhileInFlight ==
    subject = "IntegrationDashboard" =>
        ((\E k \in LoadingKinds : dash.pending[k] > 0) => dash.loading)

\* C27: at the Training Results step of AutoMLDashboard, modelResults is
\* non-null.
C27_ResultsAtLastStep ==
    subject = "AutoMLDashboard" =>
        (ml.activeStep = Len(steps) - 1 => ml.modelResults # "null")

\* C28: every row of DataFeed that counts as loaded is a row of items.
C28_LoadedRowsExist ==
    subject = "DataFeed" =>
        \A index \in 0..(itemCount(feed) - 1) :
            isItemLoaded(feed, index) => index < Len(feed.items)

C28_Witness ==
    /\ subject = "DataFeed"
    /\ feed.hasNextPage
    /\ Len(feed.items) > First
    /\ ~isItemLoaded(feed, itemCount(feed) - 1)
    /\ \E i \in DOMAIN feed.reqs : feed.reqs[i].state = "done"

\* C29: when the request of a ScrollChat message fails, the transcript
\* stays as it is, with the user's message in it and no AI message for it,
\* and loading is false afterwards, so that a further message can be sent.
C29_FailedSendRecovers ==
    [][\A id \in 1..MaxMsgs :
        (subject = "ScrollChat" /\ id \in chat.reqs /\ id \in chat'.failed)
            => (/\ chat'.transcript = chat.transcript
                /\ \E i \in 1..Len(chat'.transcript) :
                      /\ chat'.transcript[i].from = "You"
                      /\ chat'.transcript[i].id = id
                /\ \A i \in 1..Len(chat'.transcript) :
                      ~(/\ chat'.transcript[i].from = "Scroll Scribe"
                        /\ chat'.transcript[i].id = id)
                /\ ~chat'.loading)]_vars

C29_Witness ==
    /\ subject = "ScrollChat"
    /\ 1 \in chat.failed
    /\ chat.sent = 2
    /\ Replied(2)
    /\ ~chat.loading
    /\ PosOf("Scroll Scribe", 1) = 0

====
